---- MODULE Spec2Model ----
(***************************************************************************)
(* A model of rusty-s3fs: the FUSE dispatcher and its on-disk metadata     *)
(* store (src/src/s3fs.rs) and the parallel range downloader               *)
(* (src/src/s3util.rs).                                                    *)
(*                                                                         *)
(* The data directory is modelled by three variables: superblock (the      *)
(* file $data_dir/superblock), inodes (the files $data_dir/inodes/<n>) and *)
(* contents (the files $data_dir/contents/<n>).  A handler that panics     *)
(* (unwrap on an Err, assert!, unimplemented!) aborts the mount: alive     *)
(* becomes FALSE and the data directory keeps whatever was written before  *)
(* the panic.                                                              *)
(***************************************************************************)
EXTENDS Integers, Sequences, FiniteSets, TLC

VARIABLES
    alive,              \* the mounted process is running (init has returned)
    superblock,         \* <<>> when the file is absent, else <<counter>>
    inodes,             \* inode number -> InodeAttributes, for every inodes/<n>
    contents,           \* inode number -> content file, for every contents/<n>
    next_file_handle,   \* S3FS.next_file_handle
    remote,             \* the bucket: object key -> [lm, data]
    last,               \* the request served last and its reply
    allocated,          \* history: the numbers allocate_next_inode returned
    live,               \* history: inodes created and not yet removed by gc_inode
    popver,             \* history: inode -> remote version of its last population
    handles,            \* history: handle number -> inode, for the handles of this mount
    probe,              \* the call of a pure function under test and its result
    dl                  \* one get_data call of the range downloader

vars == <<alive, superblock, inodes, contents, next_file_handle, remote, last,
          allocated, live, popver, handles, probe, dl>>

fsvars == <<alive, superblock, inodes, contents, next_file_handle, remote, last,
            allocated, live, popver, handles>>

----------------------------------------------------------------------------
(* Bounds of the model.                                                    *)

MaxInode == 3          \* create is not offered once the counter reached this
MaxHandle == 2         \* handles are not issued beyond this counter value
MaxTime == 2           \* clock readings and remote timestamps are 1..MaxTime
MaxData == 2           \* longest data of one write / one remote object
MaxBlocks == 5         \* largest object of the downloader, in blocks

----------------------------------------------------------------------------
(* Machine integers.  A u64 is kept as <<hi, lo>> with value               *)
(* hi * 2^16 + lo and lo < 2^16, so that values around 2^32 can be         *)
(* computed with; `as u32` keeps the low 32 bits.                          *)

Limb == 2^16

U64(n) == <<n \div Limb, n % Limb>>

U64Add(p, q) ==
    LET s == p[2] + q[2]
    IN  <<p[1] + q[1] + (s \div Limb), s % Limb>>

U64Lt(p, q) == p[1] < q[1] \/ (p[1] = q[1] /\ p[2] < q[2])

U64Le(p, q) == p = q \/ U64Lt(p, q)

U64Min(p, q) == IF U64Lt(q, p) THEN q ELSE p

U64Max(p, q) == IF U64Lt(p, q) THEN q ELSE p

\* u64::saturating_sub
U64SatSub(p, q) ==
    IF U64Le(p, q) THEN <<0, 0>>
    ELSE IF p[2] >= q[2] THEN <<p[1] - q[1], p[2] - q[2]>>
    ELSE <<p[1] - q[1] - 1, p[2] + Limb - q[2]>>

\* `x as u32` of a u64: the value modulo 2^32
AsU32(p) == <<p[1] % Limb, p[2]>>

\* the natural number of a u64 below 2^31
U64Nat(p) == p[1] * Limb + p[2]

RECURSIVE BitAnd(_, _)
BitAnd(a, b) ==
    IF a = 0 \/ b = 0 THEN 0
    ELSE (a % 2) * (b % 2) + 2 * BitAnd(a \div 2, b \div 2)

Shr(a, k) == a \div (2^k)

\* a & !m
BitClear(a, m) == a - BitAnd(a, m)

----------------------------------------------------------------------------
(* Constants of the program and of libc.                                   *)

FUSE_ROOT_ID == 1
F_OK == 0
X_OK == 1
W_OK == 2
R_OK == 4
S_ISUID == 2048        \* 0o4000
S_ISGID == 1024        \* 0o2000
S_ISVTX == 512         \* 0o1000
S_IXGRP == 8           \* 0o0010
S_IFMT == 61440        \* 0o170000
S_IFREG == 32768       \* 0o100000
S_IFDIR == 16384       \* 0o040000
RootMode == 511        \* 0o777, the mode init gives the root
SeedMode == 1911       \* 0x777, the mode init_directories gives every entry

----------------------------------------------------------------------------
(* Value sets the requests are drawn from.                                 *)

Times == 1..MaxTime
Bytes == {1, 2}
Names == {"a", "b", "d"}
DotNames == {".", ".."}
\* BTreeMap<Vec<u8>, _> iterates in byte order; so does the bucket listing
NameOrder == <<".", "..", "a", "b", "d">>

EmptyMap == [x \in {} |-> 0]
MapPut(f, k, v) == [x \in (DOMAIN f) \cup {k} |-> IF x = k THEN v ELSE f[x]]
MapDel(f, k) == [x \in (DOMAIN f) \ {k} |-> f[x]]

BoundedSeq(S, n) == UNION {[1..k -> S] : k \in 0..n}

----------------------------------------------------------------------------
(* Pure helpers of s3fs.rs.                                                *)

clear_suid_sgid(mode) ==
    LET m1 == BitClear(mode, S_ISUID)
    IN  IF BitAnd(m1, S_IXGRP) # 0 THEN BitClear(m1, S_ISGID) ELSE m1

\* (mode & !(S_ISUID | S_ISGID)) as u16
creation_mode(mode) == BitClear(mode, S_ISUID + S_ISGID) % Limb

\* "unimplemented" stands for the unimplemented!() panic
as_file_kind(mode) ==
    LET t == BitAnd(mode, S_IFMT)
    IN  IF t = S_IFREG THEN "File"
        ELSE IF t = S_IFDIR THEN "Directory"
        ELSE "unimplemented"

creation_gid(parent, gid) ==
    IF BitAnd(parent.mode, S_ISGID) # 0 THEN parent.gid ELSE gid

CheckAccessFallThrough(file_uid, file_gid, file_mode, uid, gid, access_mask) ==
    \/ access_mask = F_OK
    \/ uid = 0
    \/ access_mask - BitAnd(access_mask, Shr(file_mode, 6)) = 0 /\ uid = file_uid
    \/ access_mask - BitAnd(access_mask, Shr(file_mode, 3)) = 0 /\ gid = file_gid
    \/ access_mask - BitAnd(access_mask, file_mode) = 0

check_access(file_uid, file_gid, file_mode, uid, gid, access_mask) ==
    IF access_mask = F_OK THEN TRUE
    ELSE IF uid = 0 THEN
        LET m0 == BitAnd(access_mask, X_OK)
            m1 == m0 - BitAnd(m0, Shr(file_mode, 6))
            m2 == m1 - BitAnd(m1, Shr(file_mode, 3))
            m3 == m2 - BitAnd(m2, file_mode)
        IN  m3 = 0
    ELSE IF uid = file_uid THEN
        access_mask - BitAnd(access_mask, Shr(file_mode, 6)) = 0
    ELSE IF gid = file_gid THEN
        access_mask - BitAnd(access_mask, Shr(file_mode, 3)) = 0
    ELSE
        access_mask - BitAnd(access_mask, file_mode) = 0

----------------------------------------------------------------------------
(* Content files.  A regular file is its length and its non-zero bytes     *)
(* (a sparse file: every other position below len reads as 0); a directory *)
(* is the DirectoryDescriptor that was serialized into the file.           *)

EmptyFile == [t |-> "file", len |-> U64(0), bytes |-> EmptyMap]

DirFile(entries) == [t |-> "dir", entries |-> entries]

ByteAt(f, p) == IF p \in DOMAIN f.bytes THEN f.bytes[p] ELSE 0

\* file.seek(SeekFrom::Start(offset)); file.write_all(data)
WriteAt(f, offset, data) ==
    LET pos == {U64Add(offset, U64(i - 1)) : i \in 1..Len(data)}
        idx(p) == U64Nat(U64SatSub(p, offset)) + 1
    IN  [t |-> "file",
         len |-> U64Max(f.len, U64Add(offset, U64(Len(data)))),
         bytes |-> [p \in (DOMAIN f.bytes) \cup pos |->
                        IF p \in pos THEN data[idx(p)] ELSE f.bytes[p]]]

\* file.read_exact_at(&mut buffer, offset) with a buffer of n bytes
ReadExactAt(f, offset, n) == [i \in 1..n |-> ByteAt(f, U64Add(offset, U64(i - 1)))]

\* read_exact_at fails with UnexpectedEof when the file ends before the buffer is full
ReadExactOk(f, offset, n) == n = 0 \/ U64Le(U64Add(offset, U64(n)), f.len)

\* min(size, file_size.saturating_sub(offset as u64) as u32)
ReadSize(size, file_size, offset) ==
    U64Nat(U64Min(U64(size), AsU32(U64SatSub(file_size, offset))))

----------------------------------------------------------------------------
(* The metadata store.                                                     *)

Attrs(ino, ofh, now, kind, mode, hardlinks, uid, gid) ==
    [inode |-> ino, open_file_handles |-> ofh, size |-> U64(0),
     last_accessed |-> now, last_modified |-> now, last_metadata_changed |-> now,
     kind |-> kind, mode |-> mode, hardlinks |-> U64(hardlinks),
     uid |-> uid, gid |-> gid, md5 |-> ""]

AllocateNoStore(sb) ==
    LET current_inode == IF sb = <<>> THEN FUSE_ROOT_ID ELSE sb[1]
    IN  [superblock |-> sb, inode |-> current_inode + 1]

\* allocate_next_inode: the counter is stored, then returned
allocate_next_inode(sb) ==
    LET current_inode == IF sb = <<>> THEN FUSE_ROOT_ID ELSE sb[1]
    IN  [superblock |-> <<current_inode + 1>>, inode |-> current_inode + 1]

\* get_inode(n) is Ok iff inodes/<n> exists
HasInode(ino) == ino \in DOMAIN inodes

\* get_directory_content(n) is Ok iff contents/<n> exists; deserializing a file
\* that holds no descriptor fails, and every caller unwraps or propagates
HasContent(ino) == ino \in DOMAIN contents
IsDirContent(ino) == HasContent(ino) /\ contents[ino].t = "dir"

\* lookup_name: "enoent", or the inode number the name maps to
LookupName(cont, parent, name) ==
    IF parent \notin DOMAIN cont THEN 0
    ELSE IF name \in DOMAIN cont[parent].entries THEN cont[parent].entries[name].ino
    ELSE 0

\* gc_inode's condition
GcCondition(attrs) == attrs.hardlinks = U64(0) /\ attrs.open_file_handles = 0

----------------------------------------------------------------------------
(* The bucket.  An object key is the sequence of its path components;      *)
(* the object store's client normalizes repeated slashes, so the prefix    *)
(* "d//" that init_directories builds lists the same children as "d/".     *)

Object(lm, data) == [lm |-> lm, data |-> data]

\* list_dir(path): the names of the children of a prefix, in listing order
ListDir(bucket, path) ==
    LET n == Len(path)
        kids == {k[n + 1] : k \in {k \in DOMAIN bucket :
                                     Len(k) > n /\ SubSeq(k, 1, n) = path}}
    IN  SelectSeq(NameOrder, LAMBDA c : c \in kids)

\* is_file(path): stat(path) says file
IsFileKey(bucket, path) == path \in DOMAIN bucket

\* get_stats(key).last_modified, through time_from_offsetdatatime
RemoteStatOk(key) == key \in DOMAIN remote

\* the worker's get_data(key) as open uses it: the bytes of the whole object
WorkerGetData(key) == remote[key].data

----------------------------------------------------------------------------
(* init_directories: the recursive walk of the bucket.  st is the data     *)
(* directory while the walk runs; st.fuel is the number of remote calls    *)
(* that still succeed (-1: all of them), st.failed says that a remote call *)
(* failed and the walk returned the error.                                 *)

SeedFileAttrs(ino, now, parent_attrs) ==
    Attrs(ino, 1, now, "File", SeedMode, 1, parent_attrs.uid, parent_attrs.gid)

SeedDirAttrs(ino, now, parent_attrs) ==
    Attrs(ino, 1, now, "Directory", SeedMode, 1, parent_attrs.uid, parent_attrs.gid)

RemoteCall(st) ==
    IF st.fuel = 0 THEN [st EXCEPT !.failed = TRUE]
    ELSE IF st.fuel > 0 THEN [st EXCEPT !.fuel = @ - 1]
    ELSE st

RECURSIVE InitDirectories(_, _, _, _, _)
RECURSIVE SeedLoop(_, _, _, _, _, _, _)

SeedLoop(st, bucket, path, parent, parent_attrs, entries, now) ==
    IF entries = <<>> \/ st.failed THEN st
    ELSE
        LET file == Head(entries)
            full_path == Append(path, file)
            st1 == RemoteCall(st)                       \* is_file(full_path)
            a == allocate_next_inode(st1.sb)
            ino == a.inode
            touched == [parent_attrs EXCEPT !.last_modified = now,
                                            !.last_metadata_changed = now]
            kind == IF IsFileKey(bucket, full_path) THEN "File" ELSE "Directory"
            attrs == IF kind = "File" THEN SeedFileAttrs(ino, now, parent_attrs)
                     ELSE SeedDirAttrs(ino, now, parent_attrs)
            pdir == DirFile(MapPut(st1.contents[parent].entries, file,
                                   [ino |-> ino, kind |-> kind]))
            c1 == IF kind = "File" THEN st1.contents
                  ELSE MapPut(st1.contents, ino,
                              DirFile(MapPut(MapPut(EmptyMap, "..",
                                                    [ino |-> parent, kind |-> "Directory"]),
                                             ".", [ino |-> ino, kind |-> "Directory"])))
            st2 == [st1 EXCEPT !.sb = a.superblock,
                               !.inodes = MapPut(MapPut(@, ino, attrs), parent, touched),
                               !.contents = MapPut(c1, parent, pdir),
                               !.allocated = Append(@, ino),
                               !.live = @ \cup {ino}]
            st3 == IF kind = "File" THEN st2
                   ELSE InitDirectories(st2, bucket, full_path, ino, now)
        IN  IF st1.failed THEN st1
            ELSE SeedLoop(st3, bucket, path, parent, touched, Tail(entries), now)

InitDirectories(st, bucket, path, parent, now) ==
    LET st1 == RemoteCall(st)                           \* list_dir(path)
    IN  IF st1.failed THEN st1
        ELSE SeedLoop(st1, bucket, path, parent, st1.inodes[parent],
                      ListDir(bucket, path), now)

----------------------------------------------------------------------------
(* The dispatcher.  Every handler is a function from the data directory    *)
(* (Cur) and the request to the data directory it leaves and its reply;    *)
(* Commit makes that the next state.                                       *)

Counter(sb) == IF sb = <<>> THEN FUSE_ROOT_ID ELSE sb[1]

Cur == [alive |-> alive, sb |-> superblock, inodes |-> inodes, contents |-> contents,
        nfh |-> next_file_handle, allocated |-> allocated, live |-> live,
        popver |-> popver, handles |-> handles, reply |-> [errno |-> "NONE"]]

Error(st, errno) == [st EXCEPT !.reply = [errno |-> errno]]

\* unwrap() of an Err, a failed assert!, unimplemented!(): the process aborts
Panic(st) == [st EXCEPT !.alive = FALSE, !.reply = [errno |-> "PANIC"]]

Commit(st, op, args) ==
    /\ alive' = st.alive
    /\ superblock' = st.sb
    /\ inodes' = st.inodes
    /\ contents' = st.contents
    /\ next_file_handle' = st.nfh
    /\ allocated' = st.allocated
    /\ live' = st.live
    /\ popver' = st.popver
    /\ handles' = st.handles
    /\ last' = [op |-> op, args |-> args, reply |-> st.reply]

Callers == {[uid |-> 0, gid |-> 0], [uid |-> 1, gid |-> 1]}

AccModes == {"O_RDONLY", "O_WRONLY", "O_RDWR", "invalid"}

Flags(acc, trunc, exec) == [acc |-> acc, trunc |-> trunc, exec |-> exec]

\* allocate_next_file_handle: the counter value with the permission bits 63 and 62
Handle(n, read, write) == [n |-> n, r |-> read, w |-> write]

AllocateHandleNoAdvance(n, flags) ==
    [counter |-> n,
     fh |-> Handle(n, flags.acc \in {"O_RDONLY", "O_RDWR"},
                      flags.acc \in {"O_WRONLY", "O_RDWR"})]

\* fetch_add(1) on the counter; the handle carries the read bit for O_RDONLY
\* and O_RDWR and the write bit for O_WRONLY and O_RDWR
allocate_next_file_handle(n, flags) ==
    [counter |-> n + 1,
     fh |-> Handle(n, flags.acc \in {"O_RDONLY", "O_RDWR"},
                      flags.acc \in {"O_WRONLY", "O_RDWR"})]

check_file_handle_read(fh) == fh.r

CheckFileHandleAnyBit(fh) == fh.r \/ fh.w

check_file_handle_write(fh) == fh.w

----------------------------------------------------------------------------
(* init, and the end of a mount.                                           *)

RootAttrs(now) == Attrs(FUSE_ROOT_ID, 0, now, "Directory", RootMode, 2, 0, 0)

SeedsWhenRootIsBare ==
    \/ FUSE_ROOT_ID \notin DOMAIN inodes
    \/ FUSE_ROOT_ID \in DOMAIN contents
            /\ DOMAIN contents[FUSE_ROOT_ID].entries = {"."}

\* self.get_inode(FUSE_ROOT_ID).is_err()
RootIsMissing == FUSE_ROOT_ID \notin DOMAIN inodes

\* fuel: the number of remote calls that succeed before one fails (-1: all do)
InitResult(bucket, now, fuel) ==
    IF ~RootIsMissing THEN
        [Cur EXCEPT !.alive = TRUE, !.nfh = 1, !.handles = EmptyMap,
                    !.reply = [errno |-> "OK", seeded |-> FALSE]]
    ELSE
        LET st0 == [sb |-> superblock,
                    inodes |-> MapPut(inodes, FUSE_ROOT_ID, RootAttrs(now)),
                    contents |-> MapPut(contents, FUSE_ROOT_ID,
                                        DirFile(MapPut(EmptyMap, ".",
                                            [ino |-> FUSE_ROOT_ID, kind |-> "Directory"]))),
                    allocated |-> allocated,
                    live |-> live \cup {FUSE_ROOT_ID},
                    fuel |-> fuel, failed |-> FALSE]
            st1 == InitDirectories(st0, bucket, <<>>, FUSE_ROOT_ID, now)
            out == [Cur EXCEPT !.sb = st1.sb, !.inodes = st1.inodes,
                               !.contents = st1.contents, !.allocated = st1.allocated,
                               !.live = st1.live, !.nfh = 1, !.handles = EmptyMap]
        IN  IF st1.failed THEN Panic(out)
            ELSE [out EXCEPT !.alive = TRUE, !.reply = [errno |-> "OK", seeded |-> TRUE]]

\* S3FS::new and init
MountWith(now, fuel) ==
    /\ ~alive
    /\ FUSE_ROOT_ID \in DOMAIN inodes \/ Counter(superblock) <= MaxInode
    /\ Commit(InitResult(remote, now, fuel), "init",
              [inode |-> FUSE_ROOT_ID, fuel |-> fuel])
    /\ UNCHANGED <<remote, probe, dl>>

\* S3FS::new and init, with every remote call succeeding
Mount(now) == MountWith(now, -1)

\* the mount ends (unmount, or the process is killed between two requests)
Unmount ==
    /\ alive
    /\ alive' = FALSE
    /\ last' = [op |-> "unmount", args |-> [inode |-> FUSE_ROOT_ID],
                 reply |-> [errno |-> "OK"]]
    /\ UNCHANGED <<superblock, inodes, contents, next_file_handle, remote,
                   allocated, live, popver, handles, probe, dl>>

----------------------------------------------------------------------------
(* create                                                                  *)

\* lookup_name(parent, name).is_ok()
LookupOk(st, parent, name) ==
    /\ parent \in DOMAIN st.contents
    /\ name \in DOMAIN st.contents[parent].entries
    /\ st.contents[parent].entries[name].ino \in DOMAIN st.inodes

CreateResult(req, parent, name, mode, flags, now) ==
    IF LookupOk(Cur, parent, name) THEN Error(Cur, "EEXIST")
    ELSE IF flags.acc = "invalid" THEN Error(Cur, "EINVAL")
    ELSE IF parent \notin DOMAIN inodes THEN Error(Cur, "ENOENT")
    ELSE
    LET parent_attrs == inodes[parent]
    IN
    IF ~check_access(parent_attrs.uid, parent_attrs.gid, parent_attrs.mode,
                     req.uid, req.gid, W_OK)
    THEN Error(Cur, "EACCES")
    ELSE
    LET touched == [parent_attrs EXCEPT !.last_modified = now,
                                        !.last_metadata_changed = now]
        mode1 == IF req.uid # 0 THEN BitClear(mode, S_ISUID + S_ISGID) ELSE mode
        a == allocate_next_inode(superblock)
        inode == a.inode
        st1 == [Cur EXCEPT !.inodes = MapPut(@, parent, touched),
                           !.sb = a.superblock,
                           !.allocated = Append(@, inode)]
        kind == as_file_kind(mode1)
        attrs == Attrs(inode, 1, now, kind, creation_mode(mode1), 1,
                       req.uid, creation_gid(touched, req.gid))
        own == IF kind = "Directory"
               THEN DirFile(MapPut(MapPut(EmptyMap, ".",
                                          [ino |-> inode, kind |-> "Directory"]),
                                   "..", [ino |-> parent, kind |-> "Directory"]))
               ELSE EmptyFile
        st2 == [st1 EXCEPT !.inodes = MapPut(@, inode, attrs),
                           !.contents = MapPut(@, inode, own),
                           !.live = @ \cup {inode}]
    IN
    IF kind = "unimplemented" THEN Panic(st1)
    ELSE IF parent \notin DOMAIN st2.contents THEN Panic(st2)
    ELSE
    [st2 EXCEPT !.contents = MapPut(@, parent,
                    DirFile(MapPut(st2.contents[parent].entries, name,
                                   [ino |-> inode, kind |-> kind]))),
                !.nfh = allocate_next_file_handle(@, flags).counter,
                !.handles = MapPut(@, next_file_handle, inode),
                !.reply = [errno |-> "OK", attrs |-> attrs,
                           fh |-> allocate_next_file_handle(next_file_handle, flags).fh]]

\* the parents a request may name: any inode number, but no regular file's
\* content is ever handed to the descriptor decoder
ParentOk(parent) == parent \in DOMAIN contents => contents[parent].t = "dir"

\* create while fewer than cap inode numbers are in use
CreateUpTo(cap, req, parent, name, mode, flags, now) ==
    /\ alive
    /\ ParentOk(parent)
    /\ Counter(superblock) < cap
    /\ next_file_handle <= MaxHandle
    /\ Commit(CreateResult(req, parent, name, mode, flags, now), "create",
              [parent |-> parent, name |-> name, flags |-> flags])
    /\ UNCHANGED <<remote, probe, dl>>

Create(req, parent, name, mode, flags, now) ==
    CreateUpTo(MaxInode, req, parent, name, mode, flags, now)

----------------------------------------------------------------------------
(* unlink                                                                  *)

\* gc_inode(attrs): both files are removed when the condition holds; each
\* remove_file(path).unwrap() panics when its file does not exist
GcInode(st, attrs) ==
    IF ~GcCondition(attrs) THEN st
    ELSE IF attrs.inode \notin DOMAIN st.inodes THEN Panic(st)
    ELSE
        LET st1 == [st EXCEPT !.inodes = MapDel(@, attrs.inode),
                              !.live = @ \ {attrs.inode}]
        IN  IF attrs.inode \notin DOMAIN st.contents THEN Panic(st1)
            ELSE [st1 EXCEPT !.contents = MapDel(@, attrs.inode)]

StickyIgnoresEntryOwner(parent_attrs, attrs, uid) ==
    /\ BitAnd(parent_attrs.mode, S_ISVTX) # 0
    /\ uid # 0
    /\ uid # parent_attrs.uid

\* "Sticky bit" handling of unlink
StickyDenies(parent_attrs, attrs, uid) ==
    /\ BitAnd(parent_attrs.mode, S_ISVTX) # 0
    /\ uid # 0
    /\ uid # parent_attrs.uid
    /\ uid # attrs.uid

\* attrs.hardlinks -= 1 on a u32: below 0 the debug build panics and the
\* release build wraps; wrap says which build runs
UnlinkResult(req, parent, name, now, wrap) ==
    IF ~LookupOk(Cur, parent, name) THEN Error(Cur, "ENOENT")
    ELSE IF parent \notin DOMAIN inodes THEN Error(Cur, "ENOENT")
    ELSE
    LET attrs == inodes[contents[parent].entries[name].ino]
        parent_attrs == inodes[parent]
    IN
    IF ~check_access(parent_attrs.uid, parent_attrs.gid, parent_attrs.mode,
                     req.uid, req.gid, W_OK)
    THEN Error(Cur, "EACCES")
    ELSE IF StickyDenies(parent_attrs, attrs, req.uid) THEN Error(Cur, "EACCES")
    ELSE
    LET touched == [parent_attrs EXCEPT !.last_metadata_changed = now,
                                        !.last_modified = now]
        st1 == [Cur EXCEPT !.inodes = MapPut(@, parent, touched)]
        links == IF attrs.hardlinks = U64(0) THEN <<Limb - 1, Limb - 1>>
                 ELSE U64SatSub(attrs.hardlinks, U64(1))
        attrs1 == [attrs EXCEPT !.hardlinks = links, !.last_metadata_changed = now]
        st2 == [st1 EXCEPT !.inodes = MapPut(@, attrs.inode, attrs1)]
        st3 == GcInode(st2, attrs1)
    IN
    IF attrs.hardlinks = U64(0) /\ ~wrap THEN Panic(st1)
    ELSE IF ~st3.alive THEN st3
    ELSE IF parent \notin DOMAIN st3.contents THEN Panic(st3)
    ELSE [st3 EXCEPT !.contents = MapPut(@, parent,
                         DirFile(MapDel(st3.contents[parent].entries, name))),
                     !.reply = [errno |-> "OK"]]

Unlink(req, parent, name, now, wrap) ==
    /\ alive
    /\ ParentOk(parent)
    /\ Commit(UnlinkResult(req, parent, name, now, wrap), "unlink",
              [parent |-> parent, name |-> name, req |-> req])
    /\ UNCHANGED <<remote, probe, dl>>

----------------------------------------------------------------------------
(* open                                                                    *)

\* get_key_by_value(root entries, (inode, File)): the first name in map order
\* that maps to the file inode, <<>> when there is none
KeyByValue(entries, inode) ==
    SelectSeq(NameOrder, LAMBDA n : n \in DOMAIN entries
                                    /\ entries[n] = [ino |-> inode, kind |-> "File"])

AccessMask(flags) ==
    IF flags.acc = "O_RDONLY" THEN (IF flags.exec THEN X_OK ELSE R_OK)
    ELSE IF flags.acc = "O_WRONLY" THEN W_OK
    ELSE R_OK + W_OK

\* the freshness test of open: the remote last_modified against the inode's
Stale(remote_lm, attr) == remote_lm # attr.last_modified

GrantHandleNoCount(st, attr, req, flags) ==
    IF check_access(attr.uid, attr.gid, attr.mode, req.uid, req.gid, AccessMask(flags))
    THEN [st EXCEPT !.inodes = MapPut(@, attr.inode, attr),
                    !.nfh = allocate_next_file_handle(@, flags).counter,
                    !.handles = MapPut(@, st.nfh, attr.inode),
                    !.reply = [errno |-> "OK",
                               fh |-> allocate_next_file_handle(st.nfh, flags).fh]]
    ELSE Error(st, "EACCES")

\* the tail of open and opendir: check_access, then count and issue the handle
GrantHandle(st, attr, req, flags) ==
    IF check_access(attr.uid, attr.gid, attr.mode, req.uid, req.gid, AccessMask(flags))
    THEN [st EXCEPT !.inodes = MapPut(@, attr.inode,
                        [attr EXCEPT !.open_file_handles = @ + 1]),
                    !.nfh = allocate_next_file_handle(@, flags).counter,
                    !.handles = MapPut(@, st.nfh, attr.inode),
                    !.reply = [errno |-> "OK",
                               fh |-> allocate_next_file_handle(st.nfh, flags).fh]]
    ELSE Error(st, "EACCES")

block_size == 67108864         \* 64 * 1024 * 1024
num_threads == 4

\* (size as f64 / block_size as f64).ceil() as usize
NumBlocks(size) == (size + block_size - 1) \div block_size

\* the loop over join_all(tasks): Ok(_) matches every task that ran to its end,
\* whatever it returned; Err is a JoinError, which no task of the model raises
JoinResult(tasks) ==
    [ok |-> TRUE, total |-> block_size * Cardinality(DOMAIN tasks)]

\* what the worker hands to open when a block task of the download failed:
\* the object's length with the bytes of the failed block never written
PartialData(key) == [i \in 1..Len(remote[key].data) |-> 0]

\* net: "ok"; the remote call that returns an error ("stat": get_stats,
\* "get": get_data); or "partial": a block task of the download fails
OpenResult(req, inode, flags, now, net) ==
    IF flags.acc = "O_RDONLY" /\ flags.trunc THEN Error(Cur, "EACCES")
    ELSE IF flags.acc = "invalid" THEN Error(Cur, "EINVAL")
    ELSE IF inode \notin DOMAIN inodes THEN Error(Cur, "ENOENT")
    ELSE IF FUSE_ROOT_ID \notin DOMAIN contents THEN Panic(Cur)
    ELSE
    LET attr == inodes[inode]
        found == KeyByValue(contents[FUSE_ROOT_ID].entries, inode)
    IN
    IF found = <<>> THEN Panic(Cur)
    ELSE
    LET filename == <<Head(found)>>
    IN
    IF net = "stat" \/ ~RemoteStatOk(filename) THEN Panic(Cur)
    ELSE IF ~Stale(remote[filename].lm, attr) THEN GrantHandle(Cur, attr, req, flags)
    ELSE
    LET truncated == [Cur EXCEPT !.contents = MapPut(@, inode, EmptyFile)]
        tasks == [b \in 0..(NumBlocks(Len(remote[filename].data)) - 1) |->
                    IF net = "partial" THEN "failed" ELSE "done"]
        partial == \E b \in DOMAIN tasks : tasks[b] = "failed"
        data == IF partial THEN PartialData(filename) ELSE WorkerGetData(filename)
        attr1 == [attr EXCEPT
                    !.last_metadata_changed = now,
                    !.last_modified = remote[filename].lm,
                    !.size = IF U64Lt(@, U64(Len(data))) THEN U64(Len(data)) ELSE @,
                    !.mode = clear_suid_sgid(@)]
        st1 == [truncated EXCEPT
                    !.contents = MapPut(@, inode, WriteAt(EmptyFile, U64(0), data)),
                    !.inodes = MapPut(@, inode, attr1),
                    !.popver = IF partial THEN @
                               ELSE MapPut(@, inode, remote[filename].lm)]
    IN
    IF net = "get" \/ ~JoinResult(tasks).ok THEN Panic(truncated)
    ELSE GrantHandle(st1, attr1, req, flags)

\* the inodes read, write and open are asked about: any number, but no
\* directory's descriptor file
FileOk(inode) == inode \in DOMAIN contents => contents[inode].t = "file"

Open(req, inode, flags, now, net) ==
    /\ alive
    /\ FileOk(inode)
    /\ next_file_handle <= MaxHandle
    /\ inode \in DOMAIN inodes => inodes[inode].open_file_handles <= MaxHandle
    /\ Commit(OpenResult(req, inode, flags, now, net), "open",
              [inode |-> inode, req |-> req, flags |-> flags, net |-> net])
    /\ UNCHANGED <<remote, probe, dl>>

----------------------------------------------------------------------------
(* read and write                                                          *)

ReadResult(inode, fh, offset, size) ==
    IF ~check_file_handle_read(fh) THEN Error(Cur, "EACCES")
    ELSE IF inode \notin DOMAIN contents THEN Error(Cur, "ENOENT")
    ELSE
    LET file == contents[inode]
        read_size == ReadSize(size, file.len, offset)
    IN  IF ~ReadExactOk(file, offset, read_size) THEN Panic(Cur)
        ELSE [Cur EXCEPT !.reply = [errno |-> "OK",
                                    data |-> ReadExactAt(file, offset, read_size)]]

Read(inode, fh, offset, size) ==
    /\ alive
    /\ FileOk(inode)
    /\ Commit(ReadResult(inode, fh, offset, size), "read",
              [inode |-> inode, fh |-> fh, offset |-> offset, size |-> size])
    /\ UNCHANGED <<remote, probe, dl>>

WriteResult(inode, fh, offset, data, now) ==
    IF ~check_file_handle_write(fh) THEN Error(Cur, "EACCES")
    ELSE IF inode \notin DOMAIN contents THEN Error(Cur, "EBADF")
    ELSE
    LET st1 == [Cur EXCEPT !.contents = MapPut(@, inode,
                               WriteAt(contents[inode], offset, data))]
        end == U64Add(offset, U64(Len(data)))
    IN
    IF inode \notin DOMAIN inodes THEN Panic(st1)
    ELSE
    [st1 EXCEPT !.inodes = MapPut(@, inode,
                    [inodes[inode] EXCEPT
                        !.last_metadata_changed = now,
                        !.last_modified = now,
                        !.size = IF U64Lt(@, end) THEN end ELSE @,
                        !.mode = clear_suid_sgid(@)]),
                !.reply = [errno |-> "OK", written |-> Len(data)]]

Write(inode, fh, offset, data, now) ==
    /\ alive
    /\ FileOk(inode)
    /\ Commit(WriteResult(inode, fh, offset, data, now), "write",
              [inode |-> inode, fh |-> fh, offset |-> offset, data |-> data])
    /\ UNCHANGED <<remote, probe, dl>>

----------------------------------------------------------------------------
(* The environment: somebody else replaces an object of the bucket.        *)

RemoteMutate(key, lm, data) ==
    /\ key \in DOMAIN remote
    /\ lm # remote[key].lm
    /\ remote' = [remote EXCEPT ![key] = Object(lm, data)]
    /\ last' = [op |-> "remote", args |-> [key |-> key], reply |-> [errno |-> "OK"]]
    /\ UNCHANGED <<alive, superblock, inodes, contents, next_file_handle,
                   allocated, live, popver, handles, probe, dl>>

----------------------------------------------------------------------------
(* The state before the first mount: an empty data directory.              *)

ProbeIdle == [fn |-> "none"]

DlIdle == [pc |-> "idle", tasks |-> EmptyMap]

InitWith(bucket) ==
    /\ alive = FALSE
    /\ superblock = <<>>
    /\ inodes = EmptyMap
    /\ contents = EmptyMap
    /\ next_file_handle = 1
    /\ remote = bucket
    /\ last = [op |-> "new", args |-> [inode |-> FUSE_ROOT_ID], reply |-> [errno |-> "OK"]]
    /\ allocated = <<>>
    /\ live = {}
    /\ popver = EmptyMap
    /\ handles = EmptyMap
    /\ probe = ProbeIdle
    /\ dl = DlIdle

\* the buckets of the model: empty, one object, and an object below a prefix
BucketEmpty == EmptyMap
BucketOne == (<<"a">> :> Object(1, <<1>>))
BucketNested == (<<"a">> :> Object(1, <<1>>)) @@ (<<"d", "a">> :> Object(1, <<2>>))

InodeNumbers == 1..MaxInode

CreateModes == {S_IFREG + 420, S_IFDIR + 493}      \* 0o644, 0o755

----------------------------------------------------------------------------
(* SpecCU: create and unlink, with any parent, name and caller, on a mount *)
(* of an empty bucket.                                                     *)

InitCU == InitWith(BucketEmpty)

NextCU ==
    \/ \E now \in Times : Mount(now)
    \/ \E req \in Callers, parent \in InodeNumbers, name \in {"a", ".", ".."},
          mode \in CreateModes :
            Create(req, parent, name, mode, Flags("O_RDWR", FALSE, FALSE), 1)
    \/ \E req \in Callers, parent \in InodeNumbers, name \in {"a", ".", ".."},
          wrap \in BOOLEAN :
            Unlink(req, parent, name, 1, wrap)

SpecCU == InitCU /\ [][NextCU]_vars

\* (I1) every live inode has its attribute record and its content file
I1 == \A n \in live : n \in DOMAIN inodes /\ n \in DOMAIN contents

\* (I2) every entry of every directory descriptor names an existing inodes/<n>
I2 ==
    \A d \in DOMAIN contents :
        contents[d].t = "dir" =>
            \A name \in DOMAIN contents[d].entries :
                contents[d].entries[name].ino \in DOMAIN inodes

\* C1: after every operation of a sequence of create and unlink operations
\* (any parents, names, callers) I1 and I2 hold.
C1_CreateUnlinkKeepI1I2 ==
    last.op \in {"create", "unlink"} => I1 /\ I2

----------------------------------------------------------------------------
(* SpecAlloc: the inode allocator over mounts, unmounts and remounts of    *)
(* one data directory, with seeding, create, unlink and garbage            *)
(* collection (of the root too, after which the next init seeds again).    *)

Buckets == {BucketEmpty, BucketOne, BucketNested}

Root == [uid |-> 0, gid |-> 0]

Init == \E bucket \in Buckets : InitWith(bucket)

NextAlloc ==
    \/ Mount(1)
    \/ Unmount
    \/ \E parent \in InodeNumbers, mode \in CreateModes :
            Create(Root, parent, "b", mode, Flags("O_RDWR", FALSE, FALSE), 1)
    \/ \E parent \in InodeNumbers, name \in {"b", ".", ".."}, wrap \in BOOLEAN :
            Unlink(Root, parent, name, 1, wrap)

SpecAlloc == Init /\ [][NextAlloc]_vars

\* C2: the numbers allocate_next_inode returns are strictly increasing, within
\* a mount and across mounts of the same data directory, and the persisted
\* superblock counter is at least every number returned.
C2_InodesStrictlyIncreasing ==
    /\ \A i, j \in 1..Len(allocated) : i < j => allocated[i] < allocated[j]
    /\ \A i \in 1..Len(allocated) :
        /\ allocated[i] > FUSE_ROOT_ID
        /\ superblock # <<>>
        /\ allocated[i] <= superblock[1]

\* an init that seeded again, after the root was collected, on a data directory
\* whose earlier mounts had allocated by seeding and by create
C2_Witness ==
    /\ last.op = "init"
    /\ last.reply.errno = "OK"
    /\ last.reply.seeded
    /\ remote = BucketOne
    /\ Len(allocated) >= 3

----------------------------------------------------------------------------
(* SpecIO: read and write on one created file, at offsets on both sides of *)
(* 2^32 (a one-byte write at 2^32 - 1 makes a sparse file of 4 GiB).       *)

IOOffsets == {U64(0), U64(1), <<Limb - 1, Limb - 1>>, <<Limb, 0>>}

IOData == {<<1>>, <<2, 1>>}

IOHandles == {Handle(1, TRUE, TRUE), Handle(1, TRUE, FALSE),
              Handle(1, FALSE, TRUE), Handle(1, FALSE, FALSE)}

InitIO == InitWith(BucketEmpty)

NextIO ==
    \/ Mount(1)
    \/ Create(Root, FUSE_ROOT_ID, "b", S_IFREG + 420, Flags("O_RDWR", FALSE, FALSE), 1)
    \/ \E fh \in IOHandles, offset \in IOOffsets, data \in IOData :
            Write(FUSE_ROOT_ID + 1, fh, offset, data, 1)
    \/ \E fh \in IOHandles, offset \in IOOffsets, size \in 1..MaxData :
            Read(FUSE_ROOT_ID + 1, fh, offset, size)

SpecIO == InitIO /\ [][NextIO]_vars

\* C3: a successful write(offset, data) followed at once by read(offset, len(data))
\* of the same inode on a read-capable handle returns exactly data.
C3_ReadAfterWrite ==
    [][(/\ last.op = "write"
        /\ last.reply.errno = "OK"
        /\ last'.op = "read"
        /\ last'.args.inode = last.args.inode
        /\ last'.args.offset = last.args.offset
        /\ last'.args.size = Len(last.args.data)
        /\ last'.args.fh.r)
       => (/\ last'.reply.errno = "OK"
           /\ last'.reply.data = last.args.data)]_vars

\* the bytes [offset, min(offset + size, L)) of a file of length L
ExactRange(file, offset, size) ==
    ReadExactAt(file, offset, U64Nat(U64Min(U64(size), U64SatSub(file.len, offset))))

\* C4: read on a read-capable handle returns exactly the bytes
\* [offset, min(offset + size, L)) of the content file, for every length L.
C4_ReadReturnsExactRange ==
    (/\ last.op = "read"
     /\ last.args.fh.r
     /\ last.args.inode \in DOMAIN contents)
    => (/\ last.reply.errno = "OK"
        /\ last.reply.data =
              ExactRange(contents[last.args.inode], last.args.offset, last.args.size))

----------------------------------------------------------------------------
(* SpecAccess: check_access applied to every mode over the nine permission *)
(* bits (and to the modes the program itself stores, which carry special   *)
(* and file-type bits), every mask, and owners and callers that are root,  *)
(* equal or different.                                                     *)

AccessModes == (0..511) \cup {SeedMode, S_IFREG + 420, S_IFDIR + 493}
AccessIds == 0..2
AccessMasks == 0..7

CheckAccessCall(file_uid, file_gid, file_mode, uid, gid, mask) ==
    /\ probe' = [fn |-> "check_access",
                 file_uid |-> file_uid, file_gid |-> file_gid, file_mode |-> file_mode,
                 uid |-> uid, gid |-> gid, mask |-> mask,
                 out |-> check_access(file_uid, file_gid, file_mode, uid, gid, mask)]
    /\ UNCHANGED <<fsvars, dl>>

NextAccess ==
    /\ probe = ProbeIdle
    /\ \E file_uid \in {0, 1}, file_gid \in {0, 1}, file_mode \in AccessModes,
          uid \in AccessIds, gid \in AccessIds, mask \in AccessMasks :
            CheckAccessCall(file_uid, file_gid, file_mode, uid, gid, mask)

InitAccess == InitWith(BucketEmpty)

SpecAccess == InitAccess /\ [][NextAccess]_vars

\* bit number b (0 = least significant) of x
Bit(x, b) == (x \div (2^b)) % 2 = 1

\* the POSIX rule: the triplet of the caller's class, and every bit asked for in it
PosixAllows(file_uid, file_gid, file_mode, uid, gid, mask) ==
    LET shift == IF uid = file_uid THEN 6 ELSE IF gid = file_gid THEN 3 ELSE 0
    IN  \/ mask = F_OK
        \/ /\ uid = 0
           /\ Bit(mask, 0) => (Bit(file_mode, 0) \/ Bit(file_mode, 3) \/ Bit(file_mode, 6))
        \/ /\ uid # 0
           /\ \A b \in 0..2 : Bit(mask, b) => Bit(file_mode, shift + b)

\* C5: check_access equals the POSIX rule: F_OK always; root reads and writes
\* anything and executes iff some X bit is set; anyone else is judged by exactly
\* one triplet (owner, else group, else other), all bits of the mask required.
C5_CheckAccessIsPosix ==
    probe.fn = "check_access" =>
        probe.out = PosixAllows(probe.file_uid, probe.file_gid, probe.file_mode,
                                probe.uid, probe.gid, probe.mask)

\* the owner is refused by the owner triplet although group and other would allow
C5_Witness ==
    /\ probe.fn = "check_access"
    /\ probe.uid = probe.file_uid
    /\ probe.uid # 0
    /\ probe.gid = probe.file_gid
    /\ probe.file_mode = 63
    /\ probe.mask = R_OK + W_OK
    /\ probe.out = FALSE

----------------------------------------------------------------------------
(* The parallel range downloader: one call of get_data (s3util.rs).        *)
(* The local file is its length and the extents written so far: an extent  *)
(* [at, s, e] says that the object's bytes [s, e) were written at file     *)
(* offset at.  set_len leaves the file zero-filled; the object's bytes are *)
(* taken to differ from that, so the file equals the object iff extents    *)
(* written in place cover [0, size).                                       *)

BlockStart(i) == block_size * i

BlockEnd(i, size) ==
    IF BlockStart(i) + block_size < size THEN BlockStart(i) + block_size ELSE size

DlSizes == {k * block_size + r : k \in 0..(MaxBlocks - 1), r \in {0, 1}}

DlTasks == DOMAIN dl.tasks

\* let op = ...; op.stat(path); File::create; set_len(size); spawn every task
GetDataStart(size) ==
    /\ dl.pc = "idle"
    /\ dl' = [pc |-> "running", size |-> size,
              file |-> [len |-> size, ext |-> {}],
              tasks |-> [i \in 0..(NumBlocks(size) - 1) |-> "spawned"],
              permits |-> num_threads, locked |-> FALSE]
    /\ UNCHANGED <<fsvars, probe>>

\* op.stat(path).await? fails: get_data returns the error, no file is touched
GetDataStatFails ==
    /\ dl.pc = "idle"
    /\ dl' = [pc |-> "returned", result |-> [ok |-> FALSE, total |-> 0],
              size |-> 0, file |-> [len |-> 0, ext |-> {}], tasks |-> EmptyMap,
              permits |-> num_threads, locked |-> FALSE]
    /\ UNCHANGED <<fsvars, probe>>

TaskAcquireNoWait(i) ==
    /\ dl.pc = "running"
    /\ dl.tasks[i] = "spawned"
    /\ dl' = [dl EXCEPT !.tasks[i] = "reading", !.permits = @ - 1]
    /\ UNCHANGED <<fsvars, probe>>

\* let _permit = semaphore_clone.acquire().await
TaskAcquire(i) ==
    /\ dl.pc = "running"
    /\ dl.tasks[i] = "spawned"
    /\ dl.permits > 0
    /\ dl' = [dl EXCEPT !.tasks[i] = "reading", !.permits = @ - 1]
    /\ UNCHANGED <<fsvars, probe>>

TaskRangeReadKeepsPermit(i, ok) ==
    /\ dl.pc = "running"
    /\ dl.tasks[i] = "reading"
    /\ dl' = IF ok THEN [dl EXCEPT !.tasks[i] = "fetched"]
             ELSE [dl EXCEPT !.tasks[i] = "failed"]
    /\ UNCHANGED <<fsvars, probe>>

\* op_c.range_read(&path_clone, range).await? : the data, or the task ends
\* with the error and drops its permit
TaskRangeRead(i, ok) ==
    /\ dl.pc = "running"
    /\ dl.tasks[i] = "reading"
    /\ dl' = IF ok THEN [dl EXCEPT !.tasks[i] = "fetched"]
             ELSE [dl EXCEPT !.tasks[i] = "failed", !.permits = @ + 1]
    /\ UNCHANGED <<fsvars, probe>>

\* file_clone.lock().await
TaskLock(i) ==
    /\ dl.pc = "running"
    /\ dl.tasks[i] = "fetched"
    /\ ~dl.locked
    /\ dl' = [dl EXCEPT !.tasks[i] = "locked", !.locked = TRUE]
    /\ UNCHANGED <<fsvars, probe>>

\* seek(SeekFrom::Start(start)).await?; write_all(&data).await?; the task ends
\* and drops the file guard and the permit
TaskSeekWrite(i, ok) ==
    /\ dl.pc = "running"
    /\ dl.tasks[i] = "locked"
    /\ dl' = IF ok
             THEN [dl EXCEPT !.tasks[i] = "done", !.locked = FALSE, !.permits = @ + 1,
                             !.file.ext = @ \cup {[at |-> BlockStart(i),
                                                   s |-> BlockStart(i),
                                                   e |-> BlockEnd(i, dl.size)]}]
             ELSE [dl EXCEPT !.tasks[i] = "failed", !.locked = FALSE, !.permits = @ + 1]
    /\ UNCHANGED <<fsvars, probe>>

GetDataJoin ==
    /\ dl.pc = "running"
    /\ \A i \in DlTasks : dl.tasks[i] \in {"done", "failed"}
    /\ dl' = [dl EXCEPT !.pc = "returned"] @@ [result |-> JoinResult(dl.tasks)]
    /\ UNCHANGED <<fsvars, probe>>

InitDownload == InitWith(BucketEmpty)

NextDownload ==
    \/ \E size \in DlSizes : GetDataStart(size)
    \/ GetDataStatFails
    \/ \E i \in DlTasks : TaskAcquire(i)
    \/ \E i \in DlTasks, ok \in BOOLEAN : TaskRangeRead(i, ok)
    \/ \E i \in DlTasks : TaskLock(i)
    \/ \E i \in DlTasks, ok \in BOOLEAN : TaskSeekWrite(i, ok)
    \/ GetDataJoin

SpecDownload == InitDownload /\ [][NextDownload]_vars

RECURSIVE CoveredFrom(_, _, _)
\* the extents written in place cover [p, size)
CoveredFrom(ext, p, size) ==
    \/ p >= size
    \/ \E x \in ext : x.s <= p /\ p < x.e /\ CoveredFrom(ext, x.e, size)

\* the local file is byte for byte the remote object
FileEqualsObject ==
    /\ dl.file.len = dl.size
    /\ \A x \in dl.file.ext : x.at = x.s /\ x.e <= dl.size
    /\ CoveredFrom(dl.file.ext, 0, dl.size)

\* C6: when get_data returns success, the local file has the object's length
\* and the object's bytes, for every size and every interleaving of the tasks.
C6_SuccessMeansFileEqualsObject ==
    (dl.pc = "returned" /\ dl.result.ok) => FileEqualsObject

\* C7: if any block task fails, get_data returns an error.
C7_TaskFailureFailsGetData ==
    (dl.pc = "returned" /\ \E i \in DOMAIN dl.tasks : dl.tasks[i] = "failed")
        => ~dl.result.ok

----------------------------------------------------------------------------
(* SpecCache: the cache of one seeded object ("a") and of one created file *)
(* ("b") under open, read and write, while the object is replaced in the   *)
(* bucket and remote calls of open fail or succeed.  The clock of the      *)
(* machine and the last_modified of the bucket are values of one type.     *)

CacheInodes == {FUSE_ROOT_ID + 1, FUSE_ROOT_ID + 2}

CacheFlags == {Flags("O_RDONLY", FALSE, FALSE), Flags("O_RDWR", FALSE, FALSE)}

CacheHandles == {Handle(1, TRUE, TRUE), Handle(1, TRUE, FALSE)}

\* what the bucket's owner puts in place of the object: shorter and longer
CacheData == {<<>>, <<1, 1>>}

InitCache == InitWith(BucketOne)

NextCache ==
    \/ Mount(1)
    \/ Create(Root, FUSE_ROOT_ID, "b", S_IFREG + 420, Flags("O_RDWR", FALSE, FALSE), 1)
    \/ \E inode \in CacheInodes, flags \in CacheFlags,
          net \in {"ok", "stat", "get", "partial"} :
            Open(Root, inode, flags, 1, net)
    \/ \E inode \in CacheInodes, fh \in CacheHandles, now \in Times :
            Write(inode, fh, U64(0), <<2>>, now)
    \/ \E inode \in CacheInodes, fh \in CacheHandles :
            Read(inode, fh, U64(0), MaxData)
    \/ \E lm \in Times, data \in CacheData : RemoteMutate(<<"a">>, lm, data)

SpecCache == InitCache /\ [][NextCache]_vars

\* the object key open derives for an inode: its first name in the root directory
KeyOf(inode) ==
    IF FUSE_ROOT_ID \in DOMAIN contents
       /\ KeyByValue(contents[FUSE_ROOT_ID].entries, inode) # <<>>
    THEN <<Head(KeyByValue(contents[FUSE_ROOT_ID].entries, inode))>>
    ELSE <<>>

\* the remote object of an inode has the version the cache was populated from
PopulatedFrom(inode) ==
    /\ inode \in DOMAIN popver
    /\ inode \in DOMAIN inodes
    /\ inode \in DOMAIN contents
    /\ KeyOf(inode) \in DOMAIN remote

\* the content file that holds exactly the bytes of an object
FileOf(data) == WriteAt(EmptyFile, U64(0), data)

\* C8: when the cache of a file was populated from version v1 and the object
\* now has version v2 # v1, an open of the file that is answered repopulates
\* contents/<inode> with the bytes of the object, of whatever length.
C8_OpenRefreshesStaleCache ==
    [][\A i \in CacheInodes :
        (/\ PopulatedFrom(i)
         /\ popver[i] # remote[KeyOf(i)].lm
         /\ last'.op = "open"
         /\ last'.args.inode = i
         /\ last'.reply.errno = "OK")
        => contents'[i] = FileOf(remote[KeyOf(i)].data)]_vars

\* C9: when the object still has the version the cache was populated from,
\* also after local writes, open changes nothing of the inode but
\* open_file_handles: content file, size, timestamps and mode stay.
C9_OpenLeavesFreshCache ==
    [][\A i \in CacheInodes :
        (/\ PopulatedFrom(i)
         /\ popver[i] = remote[KeyOf(i)].lm
         /\ last'.op = "open"
         /\ last'.args.inode = i)
        => (/\ contents'[i] = contents[i]
            /\ i \in DOMAIN inodes'
            /\ [inodes'[i] EXCEPT !.open_file_handles = 0]
                 = [inodes[i] EXCEPT !.open_file_handles = 0])]_vars

\* C10: a file made by create, whose name has no object in the bucket, can be
\* opened for reading after it was written, and no operation of the file
\* system changes the bucket.
C10_CreatedFileOpens ==
    [][/\ \A i \in CacheInodes :
            (/\ last'.op = "open"
             /\ last'.args.inode = i
             /\ last'.args.flags.acc = "O_RDONLY"
             /\ i \in DOMAIN inodes
             /\ i \in DOMAIN contents
             /\ KeyOf(i) # <<>>
             /\ KeyOf(i) \notin DOMAIN remote)
            => last'.reply.errno = "OK"
       /\ last'.op \in {"create", "write", "open", "read"} => remote' = remote]_vars

----------------------------------------------------------------------------
(* Unlink garbage collection, checked under SpecCU.                        *)

\* C11: create(parent, name) of a regular file followed at once by
\* unlink(parent, name), with no other handle opened on the new inode, leaves
\* neither inodes/<n> nor contents/<n> of the created inode.
C11_UnlinkCollectsCreatedFile ==
    [][(/\ last.op = "create"
        /\ last.reply.errno = "OK"
        /\ last.reply.attrs.kind = "File"
        /\ last.args.name \in Names
        /\ last'.op = "unlink"
        /\ last'.args.parent = last.args.parent
        /\ last'.args.name = last.args.name
        /\ last'.reply.errno = "OK")
       => (/\ last.reply.attrs.inode \notin DOMAIN inodes'
           /\ last.reply.attrs.inode \notin DOMAIN contents')]_vars

----------------------------------------------------------------------------
(* lookup                                                                  *)

\* names of the model are shorter than MAX_NAME_LENGTH, so ENAMETOOLONG never
\* arises; get_inode(parent).unwrap() aborts when the parent has no record
MAX_NAME_LENGTH == 255

\* name.len() of a name
NameLength(name) == Len(name)

\* get_inode(parent).unwrap() aborts when the parent has no record
LookupResult(req, parent, name) ==
    IF NameLength(name) > MAX_NAME_LENGTH THEN Error(Cur, "ENAMETOOLONG")
    ELSE IF parent \notin DOMAIN inodes THEN Panic(Cur)
    ELSE IF ~check_access(inodes[parent].uid, inodes[parent].gid, inodes[parent].mode,
                          req.uid, req.gid, X_OK)
    THEN Error(Cur, "EACCES")
    ELSE IF ~LookupOk(Cur, parent, name) THEN Error(Cur, "ENOENT")
    ELSE [Cur EXCEPT !.reply =
            [errno |-> "OK", attrs |-> inodes[contents[parent].entries[name].ino]]]

Lookup(req, parent, name) ==
    /\ alive
    /\ ParentOk(parent)
    /\ Commit(LookupResult(req, parent, name), "lookup",
              [parent |-> parent, name |-> name, req |-> req])
    /\ UNCHANGED <<remote, probe, dl>>

----------------------------------------------------------------------------
(* SpecNested: a bucket with an object at the root ("a") and one below a   *)
(* prefix ("d/a"), seeded by init at a clock time later than the objects'  *)
(* last_modified, then lookup, open and read with every remote call        *)
(* succeeding.                                                             *)

SeededInodes == 1..(MaxInode + 1)

InitNested == InitWith(BucketNested)

NextNested ==
    \/ Mount(MaxTime)
    \/ \E parent \in SeededInodes, name \in Names : Lookup(Root, parent, name)
    \/ \E inode \in SeededInodes, flags \in CacheFlags :
            Open(Root, inode, flags, MaxTime, "ok")
    \/ \E inode \in SeededInodes, fh \in CacheHandles, size \in 1..MaxData :
            Read(inode, fh, U64(0), size)

SpecNested == InitNested /\ [][NextNested]_vars

\* the directory that holds a name (other than "." and "..") for the inode
HoldersOf(inode) ==
    {d \in DOMAIN contents :
        /\ contents[d].t = "dir"
        /\ \E n \in DOMAIN contents[d].entries \ DotNames :
                contents[d].entries[n].ino = inode}

NameIn(d, inode) ==
    CHOOSE n \in DOMAIN contents[d].entries \ DotNames :
        contents[d].entries[n].ino = inode

RECURSIVE FullKey(_, _)
\* the names on the way from the root to the inode, which is the key of the
\* object the inode was seeded from; <<>> for the root and for unnamed inodes
FullKey(inode, fuel) ==
    IF inode = FUSE_ROOT_ID \/ fuel = 0 \/ HoldersOf(inode) = {} THEN <<>>
    ELSE LET d == CHOOSE x \in HoldersOf(inode) : TRUE
         IN  Append(FullKey(d, fuel - 1), NameIn(d, inode))

\* C12: for every object of the bucket, at any depth, open on the inode seeded
\* for it is answered and leaves in contents/<inode> the bytes of the object
\* stored under the inode's full key.
C12_OpenFetchesFullKey ==
    [][\A i \in SeededInodes :
        (/\ last'.op = "open"
         /\ last'.args.inode = i
         /\ i \in DOMAIN inodes
         /\ inodes[i].kind = "File"
         /\ FullKey(i, MaxInode + 1) \in DOMAIN remote)
        => (/\ last'.reply.errno = "OK"
            /\ i \in DOMAIN contents'
            /\ contents'[i] = FileOf(remote[FullKey(i, MaxInode + 1)].data))]_vars

----------------------------------------------------------------------------
(* Remote failures during open, checked under SpecCache.                   *)

\* the remote call of open that fails is one open makes: the stat is made as
\* soon as the key is found, the fetch when the freshness test says stale
RemoteCallFails(i, net) ==
    /\ i \in DOMAIN inodes
    /\ KeyOf(i) \in DOMAIN remote
    /\ \/ net = "stat"
       \/ net = "get" /\ Stale(remote[KeyOf(i)].lm, inodes[i])

\* C13: when the remote stat or the remote fetch fails during open, open
\* replies EIO, issues no handle, leaves open_file_handles as it was, and the
\* dispatcher keeps serving requests.
C13_RemoteFailureIsEIO ==
    [][\A i \in CacheInodes :
        (/\ last'.op = "open"
         /\ last'.args.inode = i
         /\ RemoteCallFails(i, last'.args.net))
        => (/\ last'.reply.errno = "EIO"
            /\ alive'
            /\ next_file_handle' = next_file_handle
            /\ i \in DOMAIN inodes'
            /\ inodes'[i].open_file_handles = inodes[i].open_file_handles)]_vars

C15_SizeIsContentLength ==
    (last.op = "write" /\ last.reply.errno = "OK")
        => (/\ last.args.inode \in DOMAIN inodes
            /\ last.args.inode \in DOMAIN contents
            /\ inodes[last.args.inode].size = contents[last.args.inode].len)

\* C16 (I5): the value open compares with the remote stat (last_modified) is,
\* for every file inode, the remote version of the last successful population
\* of its cache, and no timestamp at all while the cache was never populated:
\* neither seeding nor create nor write gives it another value.
C16_VersionIsEmptyOrPopulated ==
    \A i \in DOMAIN inodes :
        inodes[i].kind = "File" =>
            IF i \in DOMAIN popver
            THEN inodes[i].last_modified = popver[i]
            ELSE inodes[i].last_modified \notin Times

\* C17: while a handle returned for a file is open (the file system has no
\* release, so for the rest of the mount), no operation other than a local
\* write to the inode changes the cache contents that reads through the
\* handle return: no remote change and no other open of the same inode.
C17_HandleSeesSnapshot ==
    [][\A n \in DOMAIN handles :
        (/\ handles[n] \in DOMAIN contents
         /\ alive'
         /\ ~(last'.op = "write" /\ last'.args.inode = handles[n]))
        => (/\ handles[n] \in DOMAIN contents'
            /\ contents'[handles[n]] = contents[handles[n]])]_vars

----------------------------------------------------------------------------
(* Seeding, checked under SpecAlloc (every bucket of Buckets).             *)

\* C18: when init has seeded the data directory from the bucket, the root and
\* every seeded inode have inodes/<n> and contents/<n> (I1), and every entry
\* of every directory descriptor resolves to an existing inodes/<n> (I2).
C18_SeedingEstablishesI1I2 ==
    (last.op = "init" /\ last.reply.errno = "OK" /\ last.reply.seeded)
        => (I1 /\ I2)

----------------------------------------------------------------------------
(* Bounded parallelism of the downloader, checked under SpecDownload.      *)

\* the tasks between their acquire and their end: range_read in flight, block
\* in memory waiting for the file, or writing
PermitHolders == {i \in DOMAIN dl.tasks : dl.tasks[i] \in {"reading", "fetched", "locked"}}

\* C19: during one get_data call at most num_threads block tasks hold a
\* permit, and each of them holds it from before its range_read until after
\* its write: the free permits are those that no such task holds.
C19_AtMostConcurrencyPermits ==
    dl.pc # "idle" =>
        /\ Cardinality(PermitHolders) <= num_threads
        /\ dl.permits = num_threads - Cardinality(PermitHolders)

\* four tasks hold the permits and a fifth one waits for a permit
C19_Witness ==
    /\ dl.pc = "running"
    /\ Cardinality(PermitHolders) = num_threads
    /\ \E i \in DOMAIN dl.tasks : dl.tasks[i] = "spawned"
    /\ \E i \in DOMAIN dl.tasks : dl.tasks[i] = "locked"

----------------------------------------------------------------------------
(* opendir                                                                 *)

\* the access mask of opendir is R_OK for O_RDONLY whatever FMODE_EXEC says
OpendirResult(req, inode, flags) ==
    IF flags.acc = "O_RDONLY" /\ flags.trunc THEN Error(Cur, "EACCES")
    ELSE IF flags.acc = "invalid" THEN Error(Cur, "EINVAL")
    ELSE IF inode \notin DOMAIN inodes THEN Error(Cur, "ENOENT")
    ELSE GrantHandle(Cur, inodes[inode], req, [flags EXCEPT !.exec = FALSE])

Opendir(req, inode, flags) ==
    /\ alive
    /\ next_file_handle <= MaxHandle
    /\ inode \in DOMAIN inodes => inodes[inode].open_file_handles <= MaxHandle
    /\ Commit(OpendirResult(req, inode, flags), "opendir",
              [inode |-> inode, req |-> req, flags |-> flags])
    /\ UNCHANGED <<remote, probe, dl>>

----------------------------------------------------------------------------
(* SpecHandles: the handles that open, opendir and create return, for every *)
(* access mode (the invalid one too), with and without O_TRUNC and          *)
(* FMODE_EXEC, for root and for another caller, over several mounts.       *)

AllFlags ==
    {Flags(acc, trunc, FALSE) : acc \in AccModes, trunc \in BOOLEAN}
        \cup {Flags("O_RDONLY", FALSE, TRUE)}

\* open is asked about the two files, opendir about the root and about a file
\* (it does not look at the kind of the inode)
OpenedInodes == {FUSE_ROOT_ID + 1, FUSE_ROOT_ID + 2}
OpendirInodes == {FUSE_ROOT_ID, FUSE_ROOT_ID + 1}

\* the bucket answers open's get_stats, or the call fails
OpenNets == {"ok", "stat"}

InitHandles == InitWith(BucketOne)

NextHandles ==
    \/ Mount(MaxTime)
    \/ Unmount
    \/ \E req \in Callers, flags \in AllFlags :
            Create(req, FUSE_ROOT_ID, "b", S_IFREG + 420, flags, 1)
    \/ \E req \in Callers, inode \in OpenedInodes, flags \in AllFlags,
          net \in OpenNets :
            Open(req, inode, flags, 1, net)
    \/ \E req \in Callers, inode \in OpendirInodes, flags \in AllFlags :
            Opendir(req, inode, flags)

SpecHandles == InitHandles /\ [][NextHandles]_vars

\* C20: within one mount every successful open, opendir and create returns a
\* handle whose number differs from that of every handle returned before in
\* the mount, with the read bit set iff the access mode is O_RDONLY or O_RDWR
\* and the write bit set iff it is O_WRONLY or O_RDWR.
C20_HandlesDistinctAndFlagged ==
    [][(/\ last'.op \in {"open", "opendir", "create"}
        /\ last'.reply.errno = "OK")
       => (/\ last'.reply.fh.n \notin DOMAIN handles
           /\ last'.reply.fh.r <=> last'.args.flags.acc \in {"O_RDONLY", "O_RDWR"}
           /\ last'.reply.fh.w <=> last'.args.flags.acc \in {"O_WRONLY", "O_RDWR"})]_vars

\* opendir returns the last handle of the bound, read-only, after the other
\* handles of the mount were given out
C20_Witness ==
    /\ last.op = "opendir"
    /\ last.reply.errno = "OK"
    /\ last.reply.fh = Handle(MaxHandle, TRUE, FALSE)
    /\ DOMAIN handles = 1..MaxHandle

----------------------------------------------------------------------------
(* The permission bits of a handle.                                        *)

\* C21: read with a handle whose read bit is clear replies EACCES and returns
\* no data; write with a handle whose write bit is clear replies EACCES and
\* leaves the content files and the inode records unchanged.
C21_HandleBitsAreChecked ==
    [][/\ (last'.op = "read" /\ ~last'.args.fh.r)
            => last'.reply = [errno |-> "EACCES"]
       /\ (last'.op = "write" /\ ~last'.args.fh.w)
            => (/\ last'.reply = [errno |-> "EACCES"]
                /\ contents' = contents
                /\ inodes' = inodes)]_vars

C21_Witness ==
    /\ last.op = "write"
    /\ last.args.fh.r
    /\ ~last.args.fh.w
    /\ last.reply.errno = "EACCES"
    /\ last.args.inode \in DOMAIN contents
    /\ last.args.inode \in DOMAIN inodes

----------------------------------------------------------------------------
(* The value get_data returns.                                             *)

\* C22: when get_data returns success after every block task wrote its block,
\* the value returned is the remote object's size, for every size.
C22_ReturnsObjectSize ==
    (/\ dl.pc = "returned"
     /\ dl.result.ok
     /\ \A i \in DOMAIN dl.tasks : dl.tasks[i] = "done")
    => dl.result.total = dl.size

----------------------------------------------------------------------------
(* SpecDownloadFair: the downloader on a runtime that schedules every      *)
(* spawned task (tokio polls every ready task, and its semaphore and mutex *)
(* wake their waiters), with a bucket and a disk that answer every call.   *)

BlockIds == 0..(MaxBlocks - 1)

TaskStep(i) ==
    /\ i \in DlTasks
    /\ \/ TaskAcquire(i)
       \/ \E ok \in BOOLEAN : TaskRangeRead(i, ok)
       \/ TaskLock(i)
       \/ \E ok \in BOOLEAN : TaskSeekWrite(i, ok)

FairDownload ==
    /\ \A i \in BlockIds : WF_vars(TaskStep(i))
    /\ WF_vars(GetDataJoin)

SpecDownloadFair == SpecDownload /\ FairDownload

\* C23: every get_data call that spawned its tasks eventually returns, with
\* every permit back in the semaphore and the file mutex free, for every
\* number of blocks below, at and above the concurrency.
C23_GetDataReturns ==
    (dl.pc = "running")
        ~> (dl.pc = "returned" /\ dl.permits = num_threads /\ ~dl.locked)

C23_Witness ==
    /\ dl.pc = "returned"
    /\ Cardinality(DOMAIN dl.tasks) > num_threads
    /\ \E i \in DOMAIN dl.tasks : dl.tasks[i] = "failed"
    /\ \E i \in DOMAIN dl.tasks : dl.tasks[i] = "done"
    /\ dl.permits = num_threads
    /\ ~dl.locked

----------------------------------------------------------------------------
(* The flags of open and opendir, and the count of open handles.           *)

\* the state of the mount an open may change
OpenFrame == <<alive, superblock, inodes, contents, next_file_handle, handles, remote>>

\* C24: open and opendir whose flags have no valid access mode reply EINVAL,
\* and with O_RDONLY together with O_TRUNC they reply EACCES, whatever the
\* bucket would answer, and change nothing; an open or opendir that replies
\* with a handle adds exactly one to the inode's open_file_handles, one that
\* replies with an error changes no inode's open_file_handles.
C24_OpenFlagsAndHandleCount ==
    [][last'.op \in {"open", "opendir"}
       => (/\ last'.args.flags.acc = "invalid"
                => (last'.reply = [errno |-> "EINVAL"] /\ UNCHANGED OpenFrame)
           /\ (last'.args.flags.acc = "O_RDONLY" /\ last'.args.flags.trunc)
                => (last'.reply = [errno |-> "EACCES"] /\ UNCHANGED OpenFrame)
           /\ last'.reply.errno = "OK"
                => (/\ last'.args.inode \in DOMAIN inodes
                    /\ DOMAIN inodes' = DOMAIN inodes
                    /\ \A i \in DOMAIN inodes :
                          inodes'[i].open_file_handles =
                              inodes[i].open_file_handles
                                  + (IF i = last'.args.inode THEN 1 ELSE 0))
           /\ last'.reply.errno \notin {"OK", "PANIC"}
                => (/\ DOMAIN inodes' = DOMAIN inodes
                    /\ next_file_handle' = next_file_handle
                    /\ \A i \in DOMAIN inodes :
                          inodes'[i].open_file_handles = inodes[i].open_file_handles))]_vars

\* open with an invalid access mode on a file that already has handles, while
\* the bucket would fail the call
C24_Witness ==
    /\ last.op = "open"
    /\ last.args.flags.acc = "invalid"
    /\ last.args.net = "stat"
    /\ last.reply.errno = "EINVAL"
    /\ last.args.inode \in DOMAIN inodes
    /\ inodes[last.args.inode].open_file_handles = MaxHandle
    /\ alive

\* the handles of this mount that open, opendir and create returned for inode i
\* (no operation of the program closes a handle)
HandlesOf(i) == {h \in DOMAIN handles : handles[h] = i}

\* C25: while the file system is mounted, the persisted open_file_handles of
\* every inode is the number of handles returned for it and still open; an
\* inode for which no handle was returned has open_file_handles = 0.
C25_CountEqualsOpenHandles ==
    alive => \A i \in DOMAIN inodes :
                inodes[i].open_file_handles = Cardinality(HandlesOf(i))

----------------------------------------------------------------------------
(* SpecGc: gc_inode applied to attributes of the inodes of the store, with *)
(* every combination of a zero and a non-zero hardlinks and                *)
(* open_file_handles, and applied again to the attributes of the last call. *)

\* gc_inode(&attrs) -> bool
GcInodeResult(attrs) ==
    LET st == GcInode(Cur, attrs)
    IN  IF ~st.alive THEN st
        ELSE [st EXCEPT !.reply = [errno |-> "OK", removed |-> GcCondition(attrs)]]

GcInodeCall(attrs) ==
    /\ alive
    /\ Commit(GcInodeResult(attrs), "gc_inode", [attrs |-> attrs])
    /\ UNCHANGED <<remote, probe, dl>>

GcCounts == {0, 1}

\* the attributes a caller holds: a record of the store with its two counters
\* lowered or not, or the attributes the last call was given
GcAttrs ==
    {[inodes[i] EXCEPT !.hardlinks = U64(h), !.open_file_handles = o] :
        i \in DOMAIN inodes \ {FUSE_ROOT_ID}, h \in GcCounts, o \in GcCounts}
    \cup (IF last.op = "gc_inode" THEN {last.args.attrs} ELSE {})

InitGc == InitWith(BucketEmpty)

NextGc ==
    \/ Mount(1)
    \/ \E name \in Names :
            Create(Root, FUSE_ROOT_ID, name, S_IFREG + 420, Flags("O_RDWR", FALSE, FALSE), 1)
    \/ \E attrs \in GcAttrs : GcInodeCall(attrs)

SpecGc == InitGc /\ [][NextGc]_vars

\* C26: gc_inode removes inodes/<n> and contents/<n> if and only if the given
\* attributes have hardlinks = 0 and open_file_handles = 0, and a second call
\* with the same attributes, after the first removed the files, completes
\* without error and leaves the store unchanged.
C26_GcInodeRemovesIffAndIdempotent ==
    [][last'.op = "gc_inode"
       => (/\ last'.reply.errno = "OK"
           /\ IF GcCondition(last'.args.attrs) /\ last'.args.attrs.inode \in DOMAIN inodes
              THEN /\ inodes' = MapDel(inodes, last'.args.attrs.inode)
                   /\ contents' = MapDel(contents, last'.args.attrs.inode)
              ELSE inodes' = inodes /\ contents' = contents)]_vars

----------------------------------------------------------------------------
(* SpecCreate: create and lookup in the root and in a seeded directory     *)
(* ("d", which holds the object "d/a"), by root and by a caller of another *)
(* uid in root's group, with a valid and an invalid access mode, for       *)
(* regular files and directories, present and missing parents.             *)

BucketDir == (<<"d", "a">> :> Object(1, <<1>>))

\* the three seeded inodes and the two a mount may create
MaxCreated == 2
CreateParents == 1..(MaxInode + MaxCreated + 1)

CreateCallers == {Root, [uid |-> 1, gid |-> 0]}

CreateNames == {"a", "b"}

CreateFlags == {Flags("O_RDWR", FALSE, FALSE), Flags("invalid", FALSE, FALSE)}

CreateDirModes == {S_IFREG + 420, S_IFDIR + 365}      \* 0o644, 0o555


\* a name of 256 bytes
LongName ==
    LET x16 == "xxxxxxxxxxxxxxxx"
        x64 == x16 \o x16 \o x16 \o x16
    IN  x64 \o x64 \o x64 \o x64

InitCreate == InitWith(BucketDir)

NextCreate ==
    \/ Mount(1)
    \/ \E req \in CreateCallers, parent \in CreateParents, name \in CreateNames,
          mode \in CreateDirModes, flags \in CreateFlags :
            CreateUpTo(MaxInode + MaxCreated, req, parent, name, mode, flags, 1)
    \/ \E req \in CreateCallers, parent \in CreateParents,
          name \in CreateNames \cup {LongName} :
            Lookup(req, parent, name)

SpecCreate == InitCreate /\ [][NextCreate]_vars

\* the entries of a directory descriptor (none when the file does not exist)
EntriesOf(cont, parent) ==
    IF parent \in DOMAIN cont /\ cont[parent].t = "dir" THEN cont[parent].entries
    ELSE EmptyMap

\* C27: create on a name already present in the parent replies EEXIST; every
\* create that replies with an error leaves the superblock, every inode
\* record and every directory descriptor unchanged; a create that succeeds
\* adds exactly one entry name -> (new inode, kind) to the parent, and a
\* following lookup(parent, name) of the caller returns the new inode's
\* attributes.
C27_CreateAddsOneEntry ==
    [][/\ last'.op = "create"
            => (/\ last'.args.name \in DOMAIN EntriesOf(contents, last'.args.parent)
                    => last'.reply = [errno |-> "EEXIST"]
                /\ last'.reply.errno \notin {"OK", "PANIC"}
                    => UNCHANGED <<superblock, inodes, contents>>
                /\ last'.reply.errno = "OK"
                    => (/\ last'.reply.attrs.inode \notin DOMAIN inodes
                        /\ inodes'[last'.reply.attrs.inode] = last'.reply.attrs
                        /\ EntriesOf(contents', last'.args.parent) =
                             MapPut(EntriesOf(contents, last'.args.parent),
                                    last'.args.name,
                                    [ino |-> last'.reply.attrs.inode,
                                     kind |-> last'.reply.attrs.kind])))
       /\ (/\ last.op = "create"
           /\ last.reply.errno = "OK"
           /\ last'.op = "lookup"
           /\ last'.args.parent = last.args.parent
           /\ last'.args.name = last.args.name
           /\ last'.args.req.uid = last.reply.attrs.uid)
            => last'.reply = [errno |-> "OK", attrs |-> last.reply.attrs]]_vars

----------------------------------------------------------------------------
(* SpecUnlink: unlink, create and lookup in the root and in the seeded     *)
(* directory "d" (whose mode carries the sticky bit) and in directories   *)
(* created with the sticky bit, by root, by a caller of root's group and   *)
(* by a caller that shares neither uid nor gid with anyone; the clock      *)
(* advances between the creations and the unlinks.                         *)

UnlinkCallers == {Root, [uid |-> 1, gid |-> 0], [uid |-> 2, gid |-> 2]}

\* the root, the seeded directory and the first inode a create makes
UnlinkParents == {FUSE_ROOT_ID, FUSE_ROOT_ID + 1, FUSE_ROOT_ID + 3}

\* a regular file, and a directory that carries the sticky bit
UnlinkModes == {S_IFREG + 420, S_IFDIR + S_ISVTX + 511}      \* 0o644, 0o1777

NextUnlink ==
    \/ Mount(1)
    \/ \E req \in UnlinkCallers, parent \in UnlinkParents, name \in CreateNames,
          mode \in UnlinkModes :
            CreateUpTo(MaxInode + MaxCreated, req, parent, name, mode,
                       Flags("O_RDWR", FALSE, FALSE), 1)
    \/ \E req \in UnlinkCallers, parent \in UnlinkParents, name \in CreateNames,
          wrap \in BOOLEAN :
            Unlink(req, parent, name, MaxTime, wrap)
    \/ \E req \in UnlinkCallers, name \in CreateNames :
            Lookup(req, FUSE_ROOT_ID + 1, name)

SpecUnlink == InitCreate /\ [][NextUnlink]_vars

\* the inode a name of a directory maps to
ChildOf(parent, name) == contents[parent].entries[name].ino

\* attributes that differ at most in the two timestamps unlink sets
SameButTimes(a, b) ==
    a = [b EXCEPT !.last_modified = a.last_modified,
                  !.last_metadata_changed = a.last_metadata_changed]

\* C28: a successful unlink(parent, name) lowers the child's hardlinks by one,
\* removes the name and nothing else from the parent's descriptor and leaves
\* every other inode but the parent's timestamps unchanged; a following
\* lookup(parent, name) of the caller replies ENOENT; an unlink that replies
\* with an error changes nothing.
C28_UnlinkFrame ==
    [][/\ (last'.op = "unlink" /\ last'.reply.errno = "OK")
            => LET parent == last'.args.parent
                   child == ChildOf(parent, last'.args.name)
               IN  /\ child \in DOMAIN inodes'
                   /\ U64Add(inodes'[child].hardlinks, U64(1)) = inodes[child].hardlinks
                   /\ EntriesOf(contents', parent) =
                         MapDel(EntriesOf(contents, parent), last'.args.name)
                   /\ \A d \in DOMAIN contents \ {parent} :
                         d \in DOMAIN contents' /\ contents'[d] = contents[d]
                   /\ SameButTimes(inodes'[parent], inodes[parent])
                   /\ \A i \in DOMAIN inodes \ {parent, child} :
                         i \in DOMAIN inodes' /\ inodes'[i] = inodes[i]
       /\ (last'.op = "unlink" /\ last'.reply.errno \notin {"OK", "PANIC"})
            => UNCHANGED <<superblock, inodes, contents>>
       /\ (/\ last.op = "unlink"
           /\ last.reply.errno = "OK"
           /\ last'.op = "lookup"
           /\ last'.args.parent = last.args.parent
           /\ last'.args.name = last.args.name
           /\ last'.args.req = last.args.req)
            => last'.reply = [errno |-> "ENOENT"]]_vars

\* C29: unlink of an entry of a parent whose mode has S_ISVTX set replies
\* EACCES and changes nothing when the caller's uid is not 0, not the
\* parent's uid and not the entry's uid; for root, the parent's owner and
\* the entry's owner with W_OK on the parent the unlink is carried out.
C29_StickyBitRule ==
    [][(/\ last'.op = "unlink"
        /\ last'.args.parent \in DOMAIN inodes
        /\ last'.args.name \in DOMAIN EntriesOf(contents, last'.args.parent)
        /\ ChildOf(last'.args.parent, last'.args.name) \in DOMAIN inodes
        /\ BitAnd(inodes[last'.args.parent].mode, S_ISVTX) # 0)
       => LET req == last'.args.req
              p == inodes[last'.args.parent]
              c == inodes[ChildOf(last'.args.parent, last'.args.name)]
          IN  IF req.uid \notin {0, p.uid, c.uid}
              THEN /\ last'.reply = [errno |-> "EACCES"]
                   /\ UNCHANGED <<superblock, inodes, contents, next_file_handle>>
              ELSE check_access(p.uid, p.gid, p.mode, req.uid, req.gid, W_OK)
                      => (/\ last'.reply = [errno |-> "OK"]
                          /\ last'.args.name
                                \notin DOMAIN EntriesOf(contents', last'.args.parent))]_vars

\* a caller that may write the sticky directory d is refused the unlink of
\* another user's file in it
C29_Witness ==
    /\ last.op = "unlink"
    /\ last.reply.errno = "EACCES"
    /\ last.args.req.uid = 2
    /\ last.args.parent \in DOMAIN inodes
    /\ BitAnd(inodes[last.args.parent].mode, S_ISVTX) # 0
    /\ check_access(inodes[last.args.parent].uid, inodes[last.args.parent].gid,
                    inodes[last.args.parent].mode, 2, 2, W_OK)
    /\ last.args.name \in DOMAIN EntriesOf(contents, last.args.parent)
    /\ ChildOf(last.args.parent, last.args.name) \in DOMAIN inodes
    /\ inodes[ChildOf(last.args.parent, last.args.name)].uid = 1

----------------------------------------------------------------------------
(* Requests that name an inode without a record.                           *)

\* C30: lookup and create given a parent that has no inodes/<n> record reply
\* with an errno and the dispatcher keeps running; lookup replies ENOENT for
\* such a parent, and ENAMETOOLONG for a name longer than 255 bytes whether
\* the parent exists or not.
C30_MissingInodeIsENOENT ==
    /\ (last.op = "lookup" /\ NameLength(last.args.name) > MAX_NAME_LENGTH)
            => (alive /\ last.reply = [errno |-> "ENAMETOOLONG"])
    /\ (/\ last.op \in {"lookup", "create"}
        /\ NameLength(last.args.name) <= MAX_NAME_LENGTH
        /\ last.args.parent \notin DOMAIN inodes)
            => (/\ alive
                /\ last.reply.errno \notin {"OK", "PANIC"}
                /\ last.op = "lookup" => last.reply = [errno |-> "ENOENT"])

----------------------------------------------------------------------------
(* readdir                                                                 *)

\* entries.iter(): the names of a descriptor in the BTreeMap's order
SortedNames(entries) == SelectSeq(NameOrder, LAMBDA n : n \in DOMAIN entries)

EntryOffsetZeroBased(offset, index) == offset + index

\* the offset reply.add is given for the entry at position index of the
\* iteration that skipped offset entries
EntryOffset(offset, index) == offset + index + 1

\* cap is the number of entries the reply buffer takes before reply.add
\* reports it full
ReaddirResult(inode, offset, cap) ==
    IF inode \notin DOMAIN contents THEN Error(Cur, "ENOENT")
    ELSE
    LET entries == contents[inode].entries
        names == SortedNames(entries)
        left == IF offset < Len(names) THEN Len(names) - offset ELSE 0
        count == IF left < cap THEN left ELSE cap
    IN  [Cur EXCEPT !.reply =
            [errno |-> "OK",
             entries |-> [k \in 1..count |->
                            [ino |-> entries[names[offset + k]].ino,
                             offset |-> EntryOffset(offset, k - 1),
                             kind |-> entries[names[offset + k]].kind,
                             name |-> names[offset + k]]]]]

Readdir(inode, offset, cap) ==
    /\ alive
    /\ ParentOk(inode)
    /\ Commit(ReaddirResult(inode, offset, cap), "readdir",
              [inode |-> inode, offset |-> offset, cap |-> cap])
    /\ UNCHANGED <<remote, dl>>

----------------------------------------------------------------------------
(* SpecReaddir: a client lists a directory with readdir, starting at       *)
(* offset 0 and resuming from the offset of the last entry it received,    *)
(* with a reply buffer that takes one or more entries and may differ from  *)
(* call to call.  The directories are the root and the seeded directory    *)
(* "d" of a bucket with the objects "a" and "d/a", and a directory that    *)
(* create makes; between two listings create adds entries.                 *)

MaxCap == 3

\* the four seeded inodes and the ones create makes
ReaddirInodes == 1..(MaxInode + MaxCreated + 1)

\* the root and the seeded directory
ReaddirParents == {FUSE_ROOT_ID, FUSE_ROOT_ID + 2}

ReaddirModes == {S_IFREG + 420, S_IFDIR + 493}

\* opendir, then the first readdir is due
ReaderStart(inode) ==
    /\ alive
    /\ probe = ProbeIdle
    /\ IsDirContent(inode)
    /\ probe' = [fn |-> "reader", inode |-> inode, offset |-> 0, got |-> <<>>,
                 calls |-> 0, eof |-> FALSE]
    /\ UNCHANGED <<fsvars, dl>>

\* one readdir call of the listing: the client keeps what it received and
\* remembers the offset of the last entry; an empty reply ends the listing
ReaderStep(cap) ==
    /\ probe.fn = "reader"
    /\ ~probe.eof
    /\ Readdir(probe.inode, probe.offset, cap)
    /\ LET reply == ReaddirResult(probe.inode, probe.offset, cap).reply
       IN  probe' = [probe EXCEPT
                        !.got = @ \o reply.entries,
                        !.offset = IF reply.entries = <<>> THEN @
                                   ELSE reply.entries[Len(reply.entries)].offset,
                        !.calls = @ + 1,
                        !.eof = reply.entries = <<>>]

\* releasedir
ReaderClose ==
    /\ probe.fn = "reader"
    /\ probe.eof
    /\ probe' = ProbeIdle
    /\ UNCHANGED <<fsvars, dl>>

NextReaddir ==
    \/ probe = ProbeIdle /\ Mount(1)
    \/ /\ probe = ProbeIdle
       /\ \E parent \in ReaddirParents, name \in Names, mode \in ReaddirModes :
            CreateUpTo(MaxInode + MaxCreated + 1, Root, parent, name, mode,
                       Flags("O_RDWR", FALSE, FALSE), 1)
    \/ \E inode \in ReaddirInodes : ReaderStart(inode)
    \/ \E cap \in 1..MaxCap : ReaderStep(cap)
    \/ ReaderClose

SpecReaddir == InitNested /\ [][NextReaddir]_vars

\* the i-th entry of the descriptor in ascending order of the names, with
\* offset i
Listing(inode) ==
    LET entries == contents[inode].entries
        names == SortedNames(entries)
    IN  [i \in 1..Len(names) |->
            [ino |-> entries[names[i]].ino, offset |-> i,
             kind |-> entries[names[i]].kind, name |-> names[i]]]

\* C31: a listing that starts at offset 0 and resumes from the offset of the
\* last entry received has, after every call, received the first entries of
\* the descriptor in ascending order, the i-th with offset i; every call
\* before the last yields at least one entry, and the empty reply comes when
\* every entry was received exactly once.
C31_ReaddirListsEveryEntryOnce ==
    probe.fn = "reader"
        => (/\ Len(probe.got) <= Len(Listing(probe.inode))
            /\ probe.got = SubSeq(Listing(probe.inode), 1, Len(probe.got))
            /\ probe.calls <= Len(probe.got) + (IF probe.eof THEN 1 ELSE 0)
            /\ probe.eof => probe.got = Listing(probe.inode)
            /\ last.op = "readdir" => last.reply.errno = "OK")

\* a listing of a directory of four entries ended after more than two calls
C31_Witness ==
    /\ probe.fn = "reader"
    /\ probe.eof
    /\ Len(probe.got) >= 4
    /\ probe.calls >= 3
    /\ probe.got[1].name = "."
    /\ probe.got[2].name = ".."

----------------------------------------------------------------------------
(* The mode of the persisted inodes.                                       *)

\* permission bits plus setuid, setgid and sticky: 0o7777
ModeBits == 2^12 - 1

\* C32: the mode of every persisted inode has no bit set outside the lower
\* 12 bits.
C32_ModeWithinTwelveBits ==
    \A i \in DOMAIN inodes : BitAnd(inodes[i].mode, ModeBits) = inodes[i].mode

----------------------------------------------------------------------------
(* SpecInit: mounts of one data directory while the bucket is replaced     *)
(* between them; the remote calls of a seeding all succeed, or fail from   *)
(* the first, second, ... call on, which aborts init after the root (and   *)
(* some entries) were written; create adds an inode between the mounts.    *)

MaxFuel == 3

\* somebody else replaces the content of the bucket
RemoteReplace(bucket) ==
    /\ remote # bucket
    /\ remote' = bucket
    /\ last' = [op |-> "remote", args |-> [inode |-> FUSE_ROOT_ID],
                reply |-> [errno |-> "OK"]]
    /\ UNCHANGED <<alive, superblock, inodes, contents, next_file_handle,
                   allocated, live, popver, handles, probe, dl>>

NextInit ==
    \/ \E now \in Times, fuel \in (-1)..MaxFuel : MountWith(now, fuel)
    \/ Unmount
    \/ \E bucket \in Buckets : RemoteReplace(bucket)
    \/ Create(Root, FUSE_ROOT_ID, "b", S_IFREG + 420, Flags("O_RDWR", FALSE, FALSE), 1)

SpecInit == Init /\ [][NextInit]_vars

\* C33: init on a data directory whose root inode record exists succeeds
\* without any remote call (also when every remote call would fail) and
\* leaves the superblock, every inode record and every directory descriptor
\* unchanged, whatever the bucket holds and whatever the earlier mounts left.
C33_InitSeedsOnlyWithoutRoot ==
    [][(last'.op = "init" /\ FUSE_ROOT_ID \in DOMAIN inodes)
       => (/\ last'.reply = [errno |-> "OK", seeded |-> FALSE]
           /\ alive'
           /\ UNCHANGED <<superblock, inodes, contents, remote, allocated>>)]_vars

\* a mount after a seeding of a bucket with objects was interrupted right
\* after the root was written, at a time when the bucket does not answer
C33_Witness ==
    /\ last.op = "init"
    /\ last.args.fuel = 0
    /\ last.reply = [errno |-> "OK", seeded |-> FALSE]
    /\ remote = BucketNested
    /\ DOMAIN inodes = {FUSE_ROOT_ID}
    /\ DOMAIN contents[FUSE_ROOT_ID].entries = {"."}
    /\ superblock = <<>>

============================================================================
